---- MODULE Spec2Model ----
(***************************************************************************)
(* Report generation of the machine-status dashboard                       *)
(* (src/src/components/ReportsPage.tsx): the generateReport handler, its   *)
(* per-machine interval sweep and the aggregate it commits, and the page   *)
(* around it: its mount, its initial load, its date inputs and clock, the  *)
(* sign-in state it reads (src/src/contexts/AuthContext.tsx) and the       *)
(* Dashboard that mounts it (src/src/components/Dashboard.tsx).            *)
(*                                                                         *)
(* Time is counted in ticks (the code's milliseconds).  The date inputs of *)
(* the filter form are datetime-local strings with minute resolution: a    *)
(* filter date is modelled as the number of the minute it names, and       *)
(* parsing it yields the tick at which that minute starts.                 *)
(***************************************************************************)
EXTENDS Integers, Sequences, FiniteSets, TLC

VARIABLES
  now,                    \* Date.now(): the wall clock, in ticks
  user,                   \* useAuth().user: its id, or 0 when signed out
  profile,                \* useAuth().profile: its role, or Null when signed out
  loads,                  \* the loadInitialData calls awaiting their responses
  machines,               \* useState machines: the loaded Machine rows
  teamLeaderDepartments,  \* useState teamLeaderDepartments: department ids
  filters,                \* useState filters
  effectiveEndTime,       \* useMemo effectiveEndTime
  loading,                \* useState loading
  report,                 \* useState report (Null before the first commit)
  timeline,               \* useState timeline
  pc,                     \* position of the running generateReport call
  startTime,              \* generateReport local
  endTime,                \* generateReport local
  targetMachines,         \* generateReport local
  idx,                    \* index in targetMachines of the awaited fetch
  machine,                \* generateReport loop variable
  historyData,            \* generateReport local: the last fetch response
  machineReports,         \* generateReport local
  departmentStatusTotals, \* generateReport local
  machineTimelines,       \* generateReport local
  stale,                  \* the generateReport calls still running that are
                          \* not the last one started on the mounted page
  profileId,              \* useAuth().profile: its id, or 0 when signed out
  storage,                \* localStorage[STORAGE_KEY]: the stored profile
  activeTab,              \* Dashboard useState activeTab
  showAuthModal,          \* Dashboard useState showAuthModal
  formError,              \* AuthForm useState error, as set or not
  reportsPage             \* a ReportsPage is mounted under the Dashboard

vars == <<now, user, profile, loads, machines, teamLeaderDepartments, filters,
          effectiveEndTime, loading, report, timeline, pc,
          startTime, endTime, targetMachines, idx, machine, historyData, machineReports,
          departmentStatusTotals, machineTimelines, stale,
          profileId, storage, activeTab, showAuthModal, formError, reportsPage>>

\* The state of AuthProvider, Dashboard and AuthForm that the handlers of
\* ReportsPage do not write
dashboardVars ==
  <<profileId, storage, activeTab, showAuthModal, formError, reportsPage>>

(***************************************************************************)
(* Bounds of the model.                                                    *)
(***************************************************************************)
MaxTime == 4
MinuteTicks == 2
MaxCreated == 1
MaxHist == 2
MaxFetch == 1
MaxStale == 1
MaxLoads == 2

Statuses == {"Running", "Idle"}
Null == "null"

Times == 0..MaxTime
Dates == 0..(MaxTime \div MinuteTicks)

Min(a, b) == IF a <= b THEN a ELSE b
Max(a, b) == IF a >= b THEN a ELSE b

(***************************************************************************)
(* Data                                                                    *)
(***************************************************************************)
StatusHistory == [status : Statuses, changed_at : Times]

SeqsUpTo(S, n) == UNION {[1..k -> S] : k \in 0..n}

\* What GET /machines/{id}/history may answer: events in any array order
FetchResponses == SeqsUpTo(StatusHistory, MaxFetch)
SweepResponses == SeqsUpTo(StatusHistory, MaxHist)

\* Status names are free text (the status-type form only requires a name):
\* some are canonical array indices, which a JavaScript object orders first
StatusNames == {"Running", "7", "10"}
ArrayIndex == [key \in {"7", "10"} |-> IF key = "7" THEN 7 ELSE 10]
NameResponses ==
  SeqsUpTo([status : StatusNames, changed_at : Times], MaxHist)

\* new Date(filters.startDate).getTime()
ParseDateTime(date) == date * MinuteTicks

\* useMemo effectiveEndTime, evaluated at clock value nowv
EffectiveEndTimeAsEnd(endDate, nowv) == ParseDateTime(endDate)
EffectiveEndTime(endDate, nowv) == Min(ParseDateTime(endDate), nowv)

(***************************************************************************)
(* generateReport: the per-machine sweep                                   *)
(***************************************************************************)
\* rec[status] = (rec[status] || 0) + duration on a Record<string, number>,
\* kept as its entries in the order the keys were created
AddDuration(rec, status, duration) ==
  IF \E i \in 1..Len(rec) : rec[i].status = status
  THEN [i \in 1..Len(rec) |->
          IF rec[i].status = status
          THEN [rec[i] EXCEPT !.duration = @ + duration]
          ELSE rec[i]]
  ELSE Append(rec, [status |-> status, duration |-> duration])

\* The body of an `if (duration > 0)`: both totals and the segment list
RecordPeriodNoTotals(st, periodStart, periodEnd) ==
  LET duration == periodEnd - periodStart
  IN IF duration > 0
     THEN [st EXCEPT
             !.statusDurations = AddDuration(@, st.currentStatus, duration),
             !.segments = Append(@, [status |-> st.currentStatus,
                                     startTime |-> periodStart,
                                     endTime |-> periodEnd,
                                     duration |-> duration])]
     ELSE st
RecordPeriodSegmentOnly(st, periodStart, periodEnd) ==
  LET duration == periodEnd - periodStart
  IN IF duration > 0
     THEN [st EXCEPT
             !.departmentStatusTotals = AddDuration(@, st.currentStatus, duration),
             !.segments = Append(@, [status |-> st.currentStatus,
                                     startTime |-> periodStart,
                                     endTime |-> periodEnd,
                                     duration |-> duration])]
     ELSE st
RecordPeriod(st, periodStart, periodEnd) ==
  LET duration == periodEnd - periodStart
  IN IF duration > 0
     THEN [st EXCEPT
             !.statusDurations = AddDuration(@, st.currentStatus, duration),
             !.departmentStatusTotals = AddDuration(@, st.currentStatus, duration),
             !.segments = Append(@, [status |-> st.currentStatus,
                                     startTime |-> periodStart,
                                     endTime |-> periodEnd,
                                     duration |-> duration])]
     ELSE st

\* One iteration of the loop over relevantHistory
SweepStepUnclamped(st, current, reportStartTime, endT) ==
  LET changeTime == current.changed_at
      closed == IF st.currentStatus # Null /\ changeTime > st.currentPeriodStart
                THEN RecordPeriod(st, st.currentPeriodStart, Min(changeTime, endT))
                ELSE st
  IN [closed EXCEPT !.currentStatus = current.status,
                    !.currentPeriodStart = changeTime]
SweepStep(st, current, reportStartTime, endT) ==
  LET changeTime == current.changed_at
      closed == IF st.currentStatus # Null /\ changeTime > st.currentPeriodStart
                THEN RecordPeriod(st, st.currentPeriodStart, Min(changeTime, endT))
                ELSE st
  IN [closed EXCEPT !.currentStatus = current.status,
                    !.currentPeriodStart = Max(changeTime, reportStartTime)]

RECURSIVE SweepLoop(_, _, _, _, _)
SweepLoop(st, relevantHistory, i, reportStartTime, endT) ==
  IF i > Len(relevantHistory) THEN st
  ELSE SweepLoop(SweepStep(st, relevantHistory[i], reportStartTime, endT),
                 relevantHistory, i + 1, reportStartTime, endT)

\* The status the sweep starts with.  Array.prototype.find yields the first
\* element, in array order, that passes the test
CarriedOverStatusAny(history, relevantHistory, reportStartTime) ==
  LET firstChangeTime == relevantHistory[1].changed_at
  IN IF firstChangeTime > reportStartTime /\ history # <<>>
     THEN Head(history).status
     ELSE Null
CarriedOverStatus(history, relevantHistory, reportStartTime) ==
  LET firstChangeTime == relevantHistory[1].changed_at
      AtOrBefore(h) == h.changed_at <= reportStartTime
      found == SelectSeq(history, AtOrBefore)
  IN IF firstChangeTime > reportStartTime /\ found # <<>>
     THEN Head(found).status
     ELSE Null

\* The closing period after the loop
FinalPeriodSkipped(st, endT) == st
FinalPeriod(st, endT) ==
  IF st.currentStatus # Null /\ st.currentPeriodStart < endT
  THEN RecordPeriod(st, st.currentPeriodStart, endT)
  ELSE st

RECURSIVE SumDurations(_)
SumDurations(seq) ==
  IF seq = <<>> THEN 0 ELSE Head(seq).duration + SumDurations(Tail(seq))

\* (duration / total) * 100, kept exact as numerator and denominator
PercentageAsFraction(duration, total) ==
  IF total > 0 THEN <<duration, total>> ELSE <<0, 1>>
Percentage(duration, total) ==
  IF total > 0 THEN <<duration * 100, total>> ELSE <<0, 1>>

\* Array.prototype.sort((a, b) => b.duration - a.duration): stable
RECURSIVE SortByDurationDesc(_)
SortByDurationDesc(seq) ==
  IF seq = <<>> THEN <<>>
  ELSE LET x == seq[Len(seq)]
           sorted == SortByDurationDesc(SubSeq(seq, 1, Len(seq) - 1))
           Keeps(e) == e.duration >= x.duration
           Moves(e) == e.duration < x.duration
       IN SelectSeq(sorted, Keeps) \o <<x>> \o SelectSeq(sorted, Moves)

\* Object.entries(rec): the own property keys that are array indices come
\* first, in ascending numeric order, then the other keys in creation order
RECURSIVE SortByIndexAsc(_)
SortByIndexAsc(seq) ==
  IF seq = <<>> THEN <<>>
  ELSE LET x == seq[Len(seq)]
           sorted == SortByIndexAsc(SubSeq(seq, 1, Len(seq) - 1))
           Below(e) == ArrayIndex[e.status] < ArrayIndex[x.status]
           Above(e) == ArrayIndex[e.status] > ArrayIndex[x.status]
       IN SelectSeq(sorted, Below) \o <<x>> \o SelectSeq(sorted, Above)

ObjectEntries(rec) ==
  LET IsIndex(e) == e.status \in DOMAIN ArrayIndex
      IsName(e) == e.status \notin DOMAIN ArrayIndex
  IN SortByIndexAsc(SelectSeq(rec, IsIndex)) \o SelectSeq(rec, IsName)

\* Object.entries(totals).map(...).sort(...)
StatusDurationArrayAllStatuses(totals) ==
  LET total == SumDurations(totals)
      Missing(status) == ~\E i \in 1..Len(totals) : totals[i].status = status
      missing == SelectSeq(<<"Running", "Idle">>, Missing)
      entries == ObjectEntries(totals) \o
                   [i \in 1..Len(missing) |-> [status |-> missing[i], duration |-> 0]]
  IN SortByDurationDesc(
       [i \in 1..Len(entries) |->
          [status |-> entries[i].status,
           duration |-> entries[i].duration,
           percentage |-> Percentage(entries[i].duration, total)]])
StatusDurationArray(totals) ==
  LET total == SumDurations(totals)
      entries == ObjectEntries(totals)
  IN SortByDurationDesc(
       [i \in 1..Len(entries) |->
          [status |-> entries[i].status,
           duration |-> entries[i].duration,
           percentage |-> Percentage(entries[i].duration, total)]])

\* if (reportStartTime >= endTime || history.length === 0) continue;
SkipsMachineEmptyOnly(reportStartTime, endT, history) == Len(history) = 0
SkipsMachine(reportStartTime, endT, history) ==
  reportStartTime >= endT \/ Len(history) = 0

\* history.filter((h) => new Date(h.changed_at).getTime() < endTime)
RelevantHistoryInclusive(history, endT) ==
  LET BeforeEnd(h) == h.changed_at <= endT
  IN SelectSeq(history, BeforeEnd)
RelevantHistory(history, endT) ==
  LET BeforeEnd(h) == h.changed_at < endT
  IN SelectSeq(history, BeforeEnd)

\* (historyData || []).filter((h) => new Date(h.changed_at).getTime() >= machineCreatedAt)
RetainedHistoryAll(response, machineCreatedAt) == response
RetainedHistory(response, machineCreatedAt) ==
  LET Retained(h) == h.changed_at >= machineCreatedAt
  IN SelectSeq(response, Retained)

\* The body of `for (const machine of targetMachines)` after the fetch has
\* resolved with historyData; acc holds machineReports,
\* departmentStatusTotals and machineTimelines
ProcessMachine(m, response, startT, endT, acc) ==
  LET machineCreatedAt == m.created_at
      history == RetainedHistory(response, machineCreatedAt)
      reportStartTime == Max(startT, machineCreatedAt)
      relevantHistory == RelevantHistory(history, endT)
  IN IF SkipsMachine(reportStartTime, endT, history) THEN acc
     ELSE IF Len(relevantHistory) = 0 THEN acc
     ELSE
       LET st0 == [currentStatus |->
                     CarriedOverStatus(history, relevantHistory, reportStartTime),
                   currentPeriodStart |-> reportStartTime,
                   statusDurations |-> <<>>,
                   departmentStatusTotals |-> acc.departmentStatusTotals,
                   segments |-> <<>>]
           swept == SweepLoop(st0, relevantHistory, 1, reportStartTime, endT)
           st == FinalPeriod(swept, endT)
           machineTotal == SumDurations(st.statusDurations)
       IN [machineReports |->
             Append(acc.machineReports,
                    [machineId |-> m.id,
                     statusDurations |-> StatusDurationArray(st.statusDurations),
                     totalTime |-> machineTotal]),
           departmentStatusTotals |-> st.departmentStatusTotals,
           machineTimelines |->
             Append(acc.machineTimelines,
                    [machineId |-> m.id, segments |-> st.segments])]

(***************************************************************************)
(* generateReport: the handler                                             *)
(***************************************************************************)
\* String(m.id) and Number(filters.departmentId)
IdString(n) == <<"1", "2", "3">>[n]
NumberOf(str) == CHOOSE n \in 1..3 : IdString(n) = str

Includes(seq, x) == \E i \in 1..Len(seq) : seq[i] = x

\* targetMachines as chosen from machines, filters and the role
TargetMachines ==
  LET Selected(m) == Includes(filters.machineIds, IdString(m.id))
      InDepartment(m) == m.department_id = NumberOf(filters.departmentId)
      Led(m) == m.department_id # 0 /\ Includes(teamLeaderDepartments, m.department_id)
      chosen == IF Len(filters.machineIds) > 0 THEN SelectSeq(machines, Selected)
                ELSE IF filters.departmentId # "all" THEN SelectSeq(machines, InDepartment)
                ELSE machines
  IN IF profile = "team_leader" THEN SelectSeq(chosen, Led) ELSE chosen

NullReport == [isNull |-> TRUE]
NoMachine == [id |-> 0, created_at |-> 0, department_id |-> 0]
EmptyAcc == [machineReports |-> <<>>, departmentStatusTotals |-> <<>>,
             machineTimelines |-> <<>>]

\* setReport({...}) from the accumulated locals
DepartmentReport(acc) ==
  [statusDurations |-> StatusDurationArray(acc.departmentStatusTotals),
   totalTime |-> SumDurations(acc.departmentStatusTotals),
   machineReports |-> acc.machineReports]

\* The end of the try block and the finally block
Commit(acc) ==
  /\ report' = DepartmentReport(acc)
  /\ timeline' = acc.machineTimelines
  /\ loading' = FALSE
  /\ pc' = "done"

\* <button onClick={generateReport} disabled={loading}>
GenerateDisabledNever == FALSE
GenerateDisabled == loading

\* A generateReport call that is awaiting a fetch: its locals, and whether the
\* component whose state it sets is still the mounted one
Running(mounted) ==
  [mounted |-> mounted, pc |-> pc, startTime |-> startTime, endTime |-> endTime,
   targetMachines |-> targetMachines, idx |-> idx,
   machineReports |-> machineReports,
   departmentStatusTotals |-> departmentStatusTotals,
   machineTimelines |-> machineTimelines]

\* Click on the (enabled) button: generateReport runs up to its first await,
\* or to its end when there is no machine to fetch.  A call still awaiting a
\* fetch keeps running with its own locals
GenerateReport ==
  /\ ~GenerateDisabled
  /\ stale' = IF pc = "fetch" THEN Append(stale, Running(TRUE)) ELSE stale
  /\ startTime' = ParseDateTime(filters.startDate)
  /\ endTime' = effectiveEndTime
  /\ targetMachines' = TargetMachines
  /\ idx' = 1
  /\ machine' = NoMachine
  /\ historyData' = <<>>
  /\ machineReports' = <<>>
  /\ departmentStatusTotals' = <<>>
  /\ machineTimelines' = <<>>
  /\ IF TargetMachines = <<>>
     THEN Commit(EmptyAcc)
     ELSE /\ loading' = TRUE
          /\ pc' = "fetch"
          /\ UNCHANGED <<report, timeline>>
  /\ UNCHANGED <<now, user, profile, loads, machines, teamLeaderDepartments,
                 filters, effectiveEndTime>>
  /\ UNCHANGED dashboardVars

\* The endTime an iteration of the loop reads: the const of the call, set
\* once before the loop
IterationEndTimeReclamped == EffectiveEndTime(filters.endDate, now)
IterationEndTime == endTime

\* The awaited api.get resolves: the loop body runs for this machine, then
\* either the next fetch is issued or the report is committed
FetchResolve(response) ==
  /\ pc = "fetch"
  /\ machine' = targetMachines[idx]
  /\ historyData' = response
  /\ LET acc == ProcessMachine(targetMachines[idx], response, startTime,
                               IterationEndTime,
                               [machineReports |-> machineReports,
                                departmentStatusTotals |-> departmentStatusTotals,
                                machineTimelines |-> machineTimelines])
     IN /\ machineReports' = acc.machineReports
        /\ departmentStatusTotals' = acc.departmentStatusTotals
        /\ machineTimelines' = acc.machineTimelines
        /\ IF idx = Len(targetMachines)
           THEN /\ Commit(acc)
                /\ idx' = idx
           ELSE /\ idx' = idx + 1
                /\ UNCHANGED <<report, timeline, loading, pc>>
  /\ UNCHANGED <<now, user, profile, loads, machines, teamLeaderDepartments,
                 filters, effectiveEndTime, startTime, endTime, targetMachines,
                 stale>>
  /\ UNCHANGED dashboardVars

\* The awaited api.get rejects (request throws on !res.ok): catch, finally
FetchRejectCommitsPartial ==
  /\ pc = "fetch"
  /\ report' = DepartmentReport([machineReports |-> machineReports,
                                 departmentStatusTotals |-> departmentStatusTotals,
                                 machineTimelines |-> machineTimelines])
  /\ timeline' = machineTimelines
  /\ loading' = FALSE
  /\ pc' = "failed"
  /\ UNCHANGED <<now, user, profile, loads, machines, teamLeaderDepartments,
                 filters, effectiveEndTime, startTime,
                 endTime, targetMachines, idx, machine, historyData, machineReports,
                 departmentStatusTotals, machineTimelines, stale>>
  /\ UNCHANGED dashboardVars
FetchReject ==
  /\ pc = "fetch"
  /\ loading' = FALSE
  /\ pc' = "failed"
  /\ UNCHANGED <<now, user, profile, loads, machines, teamLeaderDepartments,
                 filters, effectiveEndTime, report, timeline, startTime,
                 endTime, targetMachines, idx, machine, historyData, machineReports,
                 departmentStatusTotals, machineTimelines, stale>>
  /\ UNCHANGED dashboardVars

(***************************************************************************)
(* The page around the handler: mounting, the initial load, and the calls  *)
(* of generateReport that outlive their component                          *)
(***************************************************************************)
\* What the server holds: GET /machines, and GET /department-leaders?user_id=
\* for the users 1 and 2 (both team leaders; user 2 leads no department)
ServerMachines == <<[id |-> 1, created_at |-> 0, department_id |-> 1],
                    [id |-> 2, created_at |-> 1, department_id |-> 2]>>
Assignments == <<(<<2>>), (<<>>)>>

\* formatLocalDateTimeForInput: the minute a time lies in
FormatLocalDateTimeForInput(t) == t \div MinuteTicks
ONE_DAY_MS == 24 * 60 * MinuteTicks

\* The initial value of useState filters, evaluated at clock value nowv
DefaultFilters(nowv) ==
  [departmentId |-> "all", machineIds |-> <<>>,
   startDate |-> FormatLocalDateTimeForInput(nowv - ONE_DAY_MS),
   endDate |-> FormatLocalDateTimeForInput(nowv)]

\* The useEffect on [profile?.role, user?.id] calls loadInitialData, which
\* awaits its four requests with the role and user id of that render
LoadInitialData == [role |-> profile, userId |-> user]
LoadInitialDataNext == [role |-> profile', userId |-> user']

Without(seq, k) == SubSeq(seq, 1, k - 1) \o SubSeq(seq, k + 1, Len(seq))

\* leaderRows: the assignments of the user, asked for only by a team leader
LeaderRows(load) ==
  IF load.role = "team_leader" /\ load.userId # 0
  THEN Assignments[load.userId]
  ELSE <<>>

\* Promise.all resolves: setMachines, and setTeamLeaderDepartments when a
\* team leader got at least one row
LoadResolve(k) ==
  /\ k \in 1..Len(loads)
  /\ loads' = Without(loads, k)
  /\ machines' = ServerMachines
  /\ teamLeaderDepartments' =
       IF loads[k].role = "team_leader" /\ Len(LeaderRows(loads[k])) > 0
       THEN LeaderRows(loads[k])
       ELSE teamLeaderDepartments
  /\ UNCHANGED <<now, user, profile, filters, effectiveEndTime, loading, report,
                 timeline, pc, startTime, endTime, targetMachines, idx, machine,
                 historyData, machineReports, departmentStatusTotals,
                 machineTimelines, stale>>
  /\ UNCHANGED dashboardVars

\* One of the four requests rejects: catch, nothing is set
LoadReject(k) ==
  /\ k \in 1..Len(loads)
  /\ loads' = Without(loads, k)
  /\ UNCHANGED <<now, user, profile, machines, teamLeaderDepartments, filters,
                 effectiveEndTime, loading, report, timeline, pc, startTime,
                 endTime, targetMachines, idx, machine, historyData,
                 machineReports, departmentStatusTotals, machineTimelines, stale>>
  /\ UNCHANGED dashboardVars

\* The user leaves the reports tab and opens it again: the ReportsPage is
\* unmounted and a new one is mounted with its initial state.  A
\* generateReport call awaiting a fetch keeps running; what it sets is the
\* state of the unmounted component.  (A load of the unmounted component
\* resolves into nothing and is dropped here.)
Remount ==
  /\ pc = "fetch" => Len(stale) < MaxStale
  /\ LET unmounted == [k \in 1..Len(stale) |-> [stale[k] EXCEPT !.mounted = FALSE]]
     IN stale' = IF pc = "fetch" THEN Append(unmounted, Running(FALSE))
                 ELSE unmounted
  /\ loads' = <<LoadInitialData>>
  /\ machines' = <<>>
  /\ teamLeaderDepartments' = <<>>
  /\ filters' = DefaultFilters(now)
  /\ effectiveEndTime' = EffectiveEndTime(DefaultFilters(now).endDate, now)
  /\ loading' = FALSE
  /\ report' = NullReport
  /\ timeline' = <<>>
  /\ pc' = "idle"
  /\ startTime' = 0
  /\ endTime' = 0
  /\ targetMachines' = <<>>
  /\ idx' = 1
  /\ machine' = NoMachine
  /\ historyData' = <<>>
  /\ machineReports' = <<>>
  /\ departmentStatusTotals' = <<>>
  /\ machineTimelines' = <<>>
  /\ UNCHANGED <<now, user, profile>>
  /\ UNCHANGED dashboardVars

\* The fetch awaited by the call stale[k] resolves: the same loop body, on
\* that call's locals; its setReport, setTimeline and setLoading reach the
\* page only if its component is still the mounted one
StaleResolve(k, response) ==
  /\ k \in 1..Len(stale)
  /\ stale[k].pc = "fetch"
  /\ LET call == stale[k]
         last == call.idx = Len(call.targetMachines)
         acc == ProcessMachine(call.targetMachines[call.idx], response,
                               call.startTime, call.endTime,
                               [machineReports |-> call.machineReports,
                                departmentStatusTotals |-> call.departmentStatusTotals,
                                machineTimelines |-> call.machineTimelines])
     IN /\ stale' = [stale EXCEPT ![k] =
                       [call EXCEPT !.machineReports = acc.machineReports,
                                    !.departmentStatusTotals = acc.departmentStatusTotals,
                                    !.machineTimelines = acc.machineTimelines,
                                    !.idx = IF last THEN @ ELSE @ + 1,
                                    !.pc = IF last THEN "done" ELSE "fetch"]]
        /\ IF last /\ call.mounted
           THEN /\ report' = DepartmentReport(acc)
                /\ timeline' = acc.machineTimelines
                /\ loading' = FALSE
           ELSE UNCHANGED <<report, timeline, loading>>
  /\ UNCHANGED <<now, user, profile, loads, machines, teamLeaderDepartments,
                 filters, effectiveEndTime, pc, startTime, endTime,
                 targetMachines, idx, machine, historyData, machineReports,
                 departmentStatusTotals, machineTimelines>>
  /\ UNCHANGED dashboardVars

StaleReject(k) ==
  /\ k \in 1..Len(stale)
  /\ stale[k].pc = "fetch"
  /\ stale' = [stale EXCEPT ![k].pc = "failed"]
  /\ loading' = IF stale[k].mounted THEN FALSE ELSE loading
  /\ UNCHANGED <<now, user, profile, loads, machines, teamLeaderDepartments,
                 filters, effectiveEndTime, report, timeline, pc, startTime,
                 endTime, targetMachines, idx, machine, historyData,
                 machineReports, departmentStatusTotals, machineTimelines>>
  /\ UNCHANGED dashboardVars

\* The histories the server answers with in the page specification
PageResponses ==
  {h \in FetchResponses : \A i \in 1..Len(h) : h[i].changed_at = 1}

\* A page from its mount on: the load, any number of generations one after
\* the other, failed fetches, and leaving and reopening the tab
NextPage ==
  \/ GenerateReport
  \/ \E response \in PageResponses : FetchResolve(response)
  \/ FetchReject
  \/ \E k \in 1..Len(loads) : LoadResolve(k)
  \/ \E k \in 1..Len(loads) : LoadReject(k)
  \/ Remount
  \/ \E k \in 1..Len(stale), response \in PageResponses : StaleResolve(k, response)
  \/ \E k \in 1..Len(stale) : StaleReject(k)

(***************************************************************************)
(* AuthProvider, AuthForm and the Dashboard that renders the page          *)
(***************************************************************************)
\* The profiles the auth service answers with (a profile stands for its id
\* and role; its email and name are copied wherever the id is)
Profiles == <<[id |-> 1, role |-> "team_leader"],
              [id |-> 2, role |-> "team_leader"],
              [id |-> 3, role |-> "operator"],
              [id |-> 4, role |-> "admin"]>>
TeamLeaders == {u \in 1..Len(Profiles) : Profiles[u].role = "team_leader"}
Operators == {u \in 1..Len(Profiles) : Profiles[u].role = "operator"}

\* No entry under STORAGE_KEY
NoProfile == [id |-> 0, role |-> Null]

\* const canAccessReports = !user || role === 'admin' || role === 'team_leader'
CanAccessReportsAnyRole ==
  user = 0 \/ profile = "admin" \/ profile = "team_leader" \/ profile = "operator"
CanAccessReports ==
  user = 0 \/ profile = "admin" \/ profile = "team_leader"

\* {activeTab === 'reports' && canAccessReports && <ReportsPage />}
ReportsPageRendered == activeTab = "reports" /\ CanAccessReports

\* The useState initial values of a ReportsPage, which the page variables
\* also hold while no ReportsPage is mounted
FreshPage ==
  /\ machines' = <<>>
  /\ teamLeaderDepartments' = <<>>
  /\ filters' = DefaultFilters(now)
  /\ effectiveEndTime' = EffectiveEndTime(DefaultFilters(now).endDate, now)
  /\ loading' = FALSE
  /\ report' = NullReport
  /\ timeline' = <<>>
  /\ pc' = "idle"
  /\ startTime' = 0
  /\ endTime' = 0
  /\ targetMachines' = <<>>
  /\ idx' = 1
  /\ machine' = NoMachine
  /\ historyData' = <<>>
  /\ machineReports' = <<>>
  /\ departmentStatusTotals' = <<>>
  /\ machineTimelines' = <<>>

\* A ReportsPage is mounted: its mount effect starts a load
PageMounts ==
  /\ FreshPage
  /\ loads' = <<LoadInitialDataNext>>
  /\ stale' = stale

\* The ReportsPage is unmounted: a generateReport call awaiting a fetch keeps
\* running on the state of the unmounted component, its loads resolve into
\* nothing
PageUnmounts ==
  /\ pc = "fetch" => Len(stale) < MaxStale
  /\ FreshPage
  /\ loads' = <<>>
  /\ LET unmounted == [k \in 1..Len(stale) |-> [stale[k] EXCEPT !.mounted = FALSE]]
     IN stale' = IF pc = "fetch" THEN Append(unmounted, Running(FALSE))
                 ELSE unmounted

\* The render that follows a change of activeTab, user or profile: the
\* ReportsPage is kept, mounted or unmounted by the condition of the
\* Dashboard; a page that is kept runs its effect on [profile?.role, user?.id]
\* when one of the two has changed
PageFollows ==
  /\ reportsPage' = ReportsPageRendered'
  /\ IF reportsPage /\ ReportsPageRendered'
     THEN /\ IF <<profile', user'>> = <<profile, user>>
             THEN loads' = loads
             ELSE /\ Len(loads) < MaxLoads
                  /\ loads' = Append(loads, LoadInitialDataNext)
          /\ UNCHANGED <<machines, teamLeaderDepartments, filters,
                         effectiveEndTime, loading, report, timeline, pc,
                         startTime, endTime, targetMachines, idx, machine,
                         historyData, machineReports, departmentStatusTotals,
                         machineTimelines, stale>>
     ELSE IF ReportsPageRendered' THEN PageMounts
     ELSE IF reportsPage THEN PageUnmounts
     ELSE UNCHANGED <<loads, machines, teamLeaderDepartments, filters,
                      effectiveEndTime, loading, report, timeline, pc,
                      startTime, endTime, targetMachines, idx, machine,
                      historyData, machineReports, departmentStatusTotals,
                      machineTimelines, stale>>

\* onClick of a tab button; the reports button is rendered only with
\* canAccessReports, the management button only for an admin or team leader
SetActiveTab(tab) ==
  /\ tab # activeTab
  /\ tab = "reports" => CanAccessReports
  /\ tab = "management" => profile \in {"admin", "team_leader"}
  /\ activeTab' = tab
  /\ UNCHANGED <<now, user, profile, profileId, storage, showAuthModal, formError>>
  /\ PageFollows

\* The sign-in button, rendered while !isAuthenticated, opens the modal with
\* a new AuthForm
OpenAuthModal ==
  /\ user = 0
  /\ ~showAuthModal
  /\ showAuthModal' = TRUE
  /\ UNCHANGED <<now, user, profile, profileId, storage, activeTab, formError,
                 reportsPage, loads, machines, teamLeaderDepartments, filters,
                 effectiveEndTime, loading, report, timeline, pc, startTime,
                 endTime, targetMachines, idx, machine, historyData,
                 machineReports, departmentStatusTotals, machineTimelines, stale>>

\* The close button of the modal unmounts the AuthForm
CloseAuthModal ==
  /\ showAuthModal
  /\ showAuthModal' = FALSE
  /\ formError' = FALSE
  /\ UNCHANGED <<now, user, profile, profileId, storage, activeTab,
                 reportsPage, loads, machines, teamLeaderDepartments, filters,
                 effectiveEndTime, loading, report, timeline, pc, startTime,
                 endTime, targetMachines, idx, machine, historyData,
                 machineReports, departmentStatusTotals, machineTimelines, stale>>

\* setProfile(p); setUser({ id: p.id, email: p.email }), applied in one render
SetSession(p) ==
  /\ profile' = p.role
  /\ profileId' = p.id
  /\ user' = p.id

\* AuthForm.handleSubmit with a signIn whose POST /auth/login resolves and
\* whose localStorage.setItem returns: the session is set and stored,
\* { error: null } is returned and onSuccess closes the modal.  (Submit and
\* resolution are one step: AuthProvider reads no state in between.)
SignIn(u) ==
  /\ showAuthModal
  /\ SetSession(Profiles[u])
  /\ storage' = Profiles[u]
  /\ showAuthModal' = FALSE
  /\ formError' = FALSE
  /\ UNCHANGED <<now, activeTab>>
  /\ PageFollows

\* ... whose POST resolves and whose localStorage.setItem throws (quota
\* exceeded, storage denied): setProfile and setUser have been called, the
\* catch returns { error }, the form shows it and the modal stays open
SignInStorageFails(u) ==
  /\ showAuthModal
  /\ SetSession(Profiles[u])
  /\ formError' = TRUE
  /\ UNCHANGED <<now, storage, activeTab, showAuthModal>>
  /\ PageFollows

\* ... whose POST rejects: the catch returns { error }, the form shows it
SignInRejects ==
  /\ showAuthModal
  /\ formError' = TRUE
  /\ UNCHANGED <<now, user, profile, profileId, storage, activeTab,
                 showAuthModal, reportsPage, loads, machines,
                 teamLeaderDepartments, filters, effectiveEndTime, loading,
                 report, timeline, pc, startTime, endTime, targetMachines, idx,
                 machine, historyData, machineReports, departmentStatusTotals,
                 machineTimelines, stale>>

\* A consumer of useAuth() calls signUp and POST /profiles resolves with the
\* new profile, created with the role 'operator': the same three writes
SignUp(u) ==
  /\ SetSession(Profiles[u])
  /\ storage' = Profiles[u]
  /\ UNCHANGED <<now, activeTab, showAuthModal, formError>>
  /\ PageFollows

\* ... and localStorage.setItem throws
SignUpStorageFails(u) ==
  /\ SetSession(Profiles[u])
  /\ UNCHANGED <<now, storage, activeTab, showAuthModal, formError>>
  /\ PageFollows

\* ... and POST /profiles rejects: { error } is returned, nothing is set
SignUpRejects == UNCHANGED vars

\* The sign-out button, rendered while isAuthenticated: setUser(null),
\* setProfile(null), localStorage.removeItem(STORAGE_KEY)
SignOut ==
  /\ user # 0
  /\ user' = 0
  /\ profile' = Null
  /\ profileId' = 0
  /\ storage' = NoProfile
  /\ UNCHANGED <<now, activeTab, showAuthModal, formError>>
  /\ PageFollows

\* A page that stays mounted while team leaders sign in and out
NextAuth ==
  \/ OpenAuthModal
  \/ \E u \in TeamLeaders : SignIn(u)
  \/ SignOut
  \/ \E k \in 1..Len(loads) : LoadResolve(k)
  \/ \E k \in 1..Len(loads) : LoadReject(k)
  \/ GenerateReport
  \/ \E response \in PageResponses : FetchResolve(response)
  \/ FetchReject

\* The Dashboard: its tabs, the sign-in modal, the calls of AuthProvider with
\* each of their outcomes, and the loads of the ReportsPage it mounts
NextDashboard ==
  \/ \E tab \in {"overview", "history", "reports", "management"} : SetActiveTab(tab)
  \/ OpenAuthModal
  \/ CloseAuthModal
  \/ \E u \in 1..Len(Profiles) : SignIn(u)
  \/ \E u \in 1..Len(Profiles) : SignInStorageFails(u)
  \/ SignInRejects
  \/ \E u \in Operators : SignUp(u)
  \/ \E u \in Operators : SignUpStorageFails(u)
  \/ SignUpRejects
  \/ SignOut
  \/ \E k \in 1..Len(loads) : LoadResolve(k)
  \/ \E k \in 1..Len(loads) : LoadReject(k)

\* The clock advances
Tick ==
  /\ now < MaxTime
  /\ now' = now + 1
  /\ UNCHANGED <<user, profile, loads, machines, teamLeaderDepartments, filters,
                 effectiveEndTime, loading, report, timeline, pc, startTime,
                 endTime, targetMachines, idx, machine, historyData,
                 machineReports, departmentStatusTotals, machineTimelines, stale>>
  /\ UNCHANGED dashboardVars

\* onChange of the start date input
SetStartDate(date) ==
  /\ date # filters.startDate
  /\ filters' = [filters EXCEPT !.startDate = date]
  /\ UNCHANGED <<now, user, profile, loads, machines, teamLeaderDepartments,
                 effectiveEndTime, loading, report, timeline, pc, startTime,
                 endTime, targetMachines, idx, machine, historyData,
                 machineReports, departmentStatusTotals, machineTimelines, stale>>
  /\ UNCHANGED dashboardVars

\* onChange of the end date input; filters.endDate is the dependency of the
\* effectiveEndTime memo, which is computed anew in the render that follows
SetEndDate(date) ==
  /\ date # filters.endDate
  /\ filters' = [filters EXCEPT !.endDate = date]
  /\ effectiveEndTime' = EffectiveEndTime(date, now)
  /\ UNCHANGED <<now, user, profile, loads, machines, teamLeaderDepartments,
                 loading, report, timeline, pc, startTime,
                 endTime, targetMachines, idx, machine, historyData,
                 machineReports, departmentStatusTotals, machineTimelines, stale>>
  /\ UNCHANGED dashboardVars

\* A page with its clock running and its date inputs edited
NextClock ==
  \/ Tick
  \/ \E date \in Dates : SetStartDate(date)
  \/ \E date \in Dates : SetEndDate(date)
  \/ GenerateReport
  \/ \E response \in PageResponses : FetchResolve(response)
  \/ FetchReject

\* Spec, SpecSweep and SpecNames follow a mounted page through its first
\* generation: generateReport resets every local and overwrites report and
\* timeline, so a generation reads nothing an earlier one left behind.  The
\* history service answers with any list of events, in any array order.
FirstClick == pc = "idle" /\ GenerateReport

Next ==
  \/ FirstClick
  \/ \E response \in FetchResponses : FetchResolve(response)
  \/ FetchReject

NextSweep ==
  \/ FirstClick
  \/ \E response \in SweepResponses : FetchResolve(response)
  \/ FetchReject

\* As NextSweep, with histories over status names that are array indices
NextNames ==
  \/ FirstClick
  \/ \E response \in NameResponses : FetchResolve(response)
  \/ FetchReject

(***************************************************************************)
(* Initial states                                                          *)
(***************************************************************************)
Machine(id, createdAt, departmentId) ==
  [id |-> id, created_at |-> createdAt, department_id |-> departmentId]

\* The reports tab of the Dashboard is open, and the session is the one
\* signIn left: the profile of the user, stored under STORAGE_KEY
ReportsTabOpen ==
  /\ profileId = user
  /\ storage = [id |-> user, role |-> profile]
  /\ activeTab = "reports"
  /\ showAuthModal = FALSE
  /\ formError = FALSE
  /\ reportsPage = TRUE

InitHandler ==
  /\ stale = <<>>
  /\ loading = FALSE
  /\ report = NullReport
  /\ timeline = <<>>
  /\ pc = "idle"
  /\ startTime = 0
  /\ endTime = 0
  /\ targetMachines = <<>>
  /\ idx = 1
  /\ machine = NoMachine
  /\ historyData = <<>>
  /\ machineReports = <<>>
  /\ departmentStatusTotals = <<>>
  /\ machineTimelines = <<>>

\* Two machines in two departments, signed out or a team leader of the
\* second department; any selection, window and clock
Init ==
  /\ now \in Times
  /\ \E u \in {0, 1} : /\ user = u
                       /\ profile = IF u = 0 THEN Null ELSE "team_leader"
  /\ machines = <<Machine(1, 0, 1), Machine(2, 1, 2)>>
  /\ teamLeaderDepartments = <<2>>
  /\ \E s, e \in Dates, d \in {"all", "2"}, ids \in {<<>>, <<"1">>} :
       filters = [departmentId |-> d, machineIds |-> ids,
                  startDate |-> s, endDate |-> e]
  /\ effectiveEndTime = EffectiveEndTime(filters.endDate, now)
  /\ loads = <<>>
  /\ ReportsTabOpen
  /\ InitHandler

Spec == Init /\ [][Next]_vars

\* One machine, any window and clock; the histories are longer (NextSweep)
InitSweep ==
  /\ now \in Times
  /\ user = 0
  /\ profile = Null
  /\ \E c \in 0..MaxCreated : machines = <<Machine(1, c, 1)>>
  /\ teamLeaderDepartments = <<>>
  /\ \E s, e \in Dates :
       filters = [departmentId |-> "all", machineIds |-> <<>>,
                  startDate |-> s, endDate |-> e]
  /\ effectiveEndTime = EffectiveEndTime(filters.endDate, now)
  /\ loads = <<>>
  /\ ReportsTabOpen
  /\ InitHandler

SpecSweep == InitSweep /\ [][NextSweep]_vars

SpecNames == InitSweep /\ [][NextNames]_vars

\* A page just mounted by a signed-out visitor, its load under way
InitPage ==
  /\ now = MaxTime
  /\ user = 0
  /\ profile = Null
  /\ machines = <<>>
  /\ teamLeaderDepartments = <<>>
  /\ filters = DefaultFilters(now)
  /\ effectiveEndTime = EffectiveEndTime(filters.endDate, now)
  /\ ReportsTabOpen
  /\ InitHandler
  /\ loads = <<LoadInitialData>>

SpecPage == InitPage /\ [][NextPage]_vars

\* A page mounted at time 0 by a signed-out visitor, its load completed with
\* two machines
InitClock ==
  /\ now = 0
  /\ user = 0
  /\ profile = Null
  /\ machines = <<Machine(1, 0, 1), Machine(2, 1, 2)>>
  /\ teamLeaderDepartments = <<>>
  /\ filters = DefaultFilters(now)
  /\ effectiveEndTime = EffectiveEndTime(filters.endDate, now)
  /\ loads = <<>>
  /\ ReportsTabOpen
  /\ InitHandler

SpecClock == InitClock /\ [][NextClock]_vars

SpecAuth == InitPage /\ [][NextAuth]_vars

\* The Dashboard after AuthProvider's mount effect has read the storage: a
\* stored profile is the session; the overview tab is shown, no ReportsPage
InitDashboard ==
  /\ now = MaxTime
  /\ \E u \in 0..Len(Profiles) :
       storage = IF u = 0 THEN NoProfile ELSE Profiles[u]
  /\ profile = storage.role
  /\ profileId = storage.id
  /\ user = storage.id
  /\ activeTab = "overview"
  /\ showAuthModal = FALSE
  /\ formError = FALSE
  /\ reportsPage = FALSE
  /\ machines = <<>>
  /\ teamLeaderDepartments = <<>>
  /\ filters = DefaultFilters(now)
  /\ effectiveEndTime = EffectiveEndTime(filters.endDate, now)
  /\ loads = <<>>
  /\ InitHandler

SpecDashboard == InitDashboard /\ [][NextDashboard]_vars

(***************************************************************************)
(* The machine processed last, as the state shows it                       *)
(***************************************************************************)
\* A fetch has resolved in this generation and its machine has been processed
Processed == pc \in {"fetch", "done"} /\ machine # NoMachine

\* ... and that machine was pushed to machineReports and machineTimelines
Pushed ==
  /\ Processed
  /\ machineReports # <<>>
  /\ machineReports[Len(machineReports)].machineId = machine.id

LastSegments ==
  IF Pushed THEN machineTimelines[Len(machineTimelines)].segments ELSE <<>>
LastReport == machineReports[Len(machineReports)]

\* max(window.start, machineCreatedAt) of the machine processed last
EffectiveReportStart == Max(startTime, machine.created_at)

\* The events of the last response that are not before the machine's creation
RetainedEvents == {i \in 1..Len(historyData) : historyData[i].changed_at >= machine.created_at}

DistinctTimestamps(h) ==
  \A i, j \in 1..Len(h) : i # j => h[i].changed_at # h[j].changed_at

Covers(seg, t) == seg.startTime <= t /\ t < seg.endTime

RECURSIVE SumOfStatus(_, _)
SumOfStatus(seq, status) ==
  IF seq = <<>> THEN 0
  ELSE (IF Head(seq).status = status THEN Head(seq).duration ELSE 0)
       + SumOfStatus(Tail(seq), status)

RECURSIVE SumTotalTime(_)
SumTotalTime(reports) ==
  IF reports = <<>> THEN 0 ELSE Head(reports).totalTime + SumTotalTime(Tail(reports))

CreatedAtOf(id) == (CHOOSE i \in 1..Len(machines) : machines[i].id = id)

(***************************************************************************)
(* Claims                                                                  *)
(***************************************************************************)
\* C1: no two segments of one machine's timeline intersect in time, whatever
\* the array order of the fetched history.
C1_NoOverlap ==
  \A k \in 1..Len(machineTimelines) :
    LET segs == machineTimelines[k].segments
    IN \A i, j \in 1..Len(segs) :
         i # j => \/ segs[i].endTime <= segs[j].startTime
                  \/ segs[j].endTime <= segs[i].startTime

\* C2: with distinct timestamps, every instant t of the effective window is
\* covered by exactly one segment, carrying the status of the latest retained
\* event at or before t, when such an event exists, and by no segment otherwise.
C2_ReferenceAttribution ==
  (Processed /\ DistinctTimestamps(historyData)) =>
    \A t \in Times :
      (EffectiveReportStart <= t /\ t < endTime) =>
        LET known == {i \in RetainedEvents : historyData[i].changed_at <= t}
            covering == {i \in 1..Len(LastSegments) : Covers(LastSegments[i], t)}
        IN IF known = {} THEN covering = {}
           ELSE LET latest == CHOOSE i \in known :
                                \A j \in known :
                                  historyData[j].changed_at <= historyData[i].changed_at
                IN /\ Cardinality(covering) = 1
                   /\ \A i \in covering :
                        LastSegments[i].status = historyData[latest].status

\* C3: the durations and segments of a machine are the same for every
\* permutation of the fetched events (distinct timestamps).
C3_OrderIndependence ==
  (Processed /\ DistinctTimestamps(historyData)) =>
    \A p \in Permutations(1..Len(historyData)) :
      LET permuted == [i \in 1..Len(historyData) |-> historyData[p[i]]]
          other == ProcessMachine(machine, permuted, startTime, endTime, EmptyAcc)
      IN IF Pushed
         THEN /\ other.machineReports = <<LastReport>>
              /\ other.machineTimelines =
                   <<[machineId |-> machine.id, segments |-> LastSegments]>>
         ELSE other = EmptyAcc

\* C4: for every machine of the report, the StatusDuration durations, the
\* segment durations and totalTime have the same sum, and each status's
\* duration is the sum of the durations of that status's segments.
C4_Conservation ==
  /\ Len(machineTimelines) = Len(machineReports)
  /\ \A k \in 1..Len(machineReports) :
       LET durs == machineReports[k].statusDurations
           segs == machineTimelines[k].segments
       IN /\ machineTimelines[k].machineId = machineReports[k].machineId
          /\ SumDurations(durs) = SumDurations(segs)
          /\ machineReports[k].totalTime = SumDurations(segs)
          /\ \A i \in 1..Len(durs) :
               durs[i].duration = SumOfStatus(segs, durs[i].status)
          /\ \A i \in 1..Len(segs) :
               \E j \in 1..Len(durs) : durs[j].status = segs[i].status
          /\ \A i, j \in 1..Len(durs) : i # j => durs[i].status # durs[j].status

C4_Witness ==
  /\ pc = "done"
  /\ \E k \in 1..Len(machineReports) :
       /\ Len(machineTimelines[k].segments) >= 2
       /\ Len(machineReports[k].statusDurations) = 1
       /\ machineReports[k].totalTime >= 3

\* C5: the total time of a machine with a non-empty report is the effective
\* window minus the time with no known status:
\* effectiveEnd - max(effectiveReportStart, earliest retained changedAt).
C5_WindowCoverage ==
  (Pushed /\ LastSegments # <<>>) =>
    LET earliest == CHOOSE i \in RetainedEvents :
                      \A j \in RetainedEvents :
                        historyData[i].changed_at <= historyData[j].changed_at
        knownFrom == Max(EffectiveReportStart, historyData[earliest].changed_at)
    IN /\ LastReport.totalTime = endTime - knownFrom
       /\ LastReport.totalTime <= endTime - EffectiveReportStart

\* C7: when an event at or before the effective report start exists, a segment
\* starts at the effective report start and the first such segment carries the
\* status of the latest of those events.
C7_CarriedOver ==
  LET atStart == {i \in RetainedEvents : historyData[i].changed_at <= EffectiveReportStart}
      latest == {i \in atStart :
                   \A j \in atStart : historyData[j].changed_at <= historyData[i].changed_at}
      opening == {i \in 1..Len(LastSegments) :
                    LastSegments[i].startTime = EffectiveReportStart}
  IN (/\ Processed
      /\ EffectiveReportStart < endTime
      /\ Cardinality(latest) = 1) =>
       /\ opening # {}
       /\ \A i \in latest :
            LastSegments[CHOOSE o \in opening : \A q \in opening : o <= q].status
              = historyData[i].status

\* C8: every segment lies inside the effective window of its machine:
\* max(window.start, machineCreatedAt) <= startTime < endTime
\* <= min(window.end, now), for any array order of the history.
C8_WindowContainment ==
  \A k \in 1..Len(machineTimelines) :
    LET segs == machineTimelines[k].segments
        createdAt == machines[CreatedAtOf(machineTimelines[k].machineId)].created_at
    IN \A i \in 1..Len(segs) :
         /\ Max(ParseDateTime(filters.startDate), createdAt) <= segs[i].startTime
         /\ segs[i].startTime < segs[i].endTime
         /\ segs[i].endTime <= Min(ParseDateTime(filters.endDate), now)

C8_Witness ==
  /\ pc = "done"
  /\ machine.created_at > ParseDateTime(filters.startDate)
  /\ ParseDateTime(filters.endDate) > now
  /\ \E i \in 1..Len(historyData) : historyData[i].changed_at < machine.created_at
  /\ \E i \in 1..Len(LastSegments) :
       /\ LastSegments[i].startTime = machine.created_at
       /\ LastSegments[i].endTime = now

\* C6: in a committed report the aggregate duration of each status is the sum
\* of that status's durations over the machine reports, the aggregate lists
\* exactly the statuses of the machine reports, and the aggregate totalTime is
\* the sum of the machines' totalTime.
RECURSIVE SumOverReports(_, _)
SumOverReports(reports, status) ==
  IF reports = <<>> THEN 0
  ELSE SumOfStatus(Head(reports).statusDurations, status)
       + SumOverReports(Tail(reports), status)

C6_AggregateConsistency ==
  pc = "done" =>
    LET agg == report.statusDurations
    IN /\ \A i \in 1..Len(agg) :
            /\ agg[i].duration = SumOverReports(report.machineReports, agg[i].status)
            /\ \E k \in 1..Len(report.machineReports) :
                 \E j \in 1..Len(report.machineReports[k].statusDurations) :
                   report.machineReports[k].statusDurations[j].status = agg[i].status
       /\ \A i, j \in 1..Len(agg) : i # j => agg[i].status # agg[j].status
       /\ \A k \in 1..Len(report.machineReports) :
            \A j \in 1..Len(report.machineReports[k].statusDurations) :
              \E i \in 1..Len(agg) :
                agg[i].status = report.machineReports[k].statusDurations[j].status
       /\ report.totalTime = SumTotalTime(report.machineReports)

C6_Witness ==
  /\ pc = "done"
  /\ Len(report.machineReports) = 2
  /\ Len(report.statusDurations) = 1
  /\ report.totalTime > report.machineReports[1].totalTime
  /\ report.machineReports[1].totalTime > 0

\* C9: for a fixed now, a generation with window.end >= now computes, fetch by
\* fetch, what a generation with window.end = now (effective end min(now, now))
\* computes, and commits the same report and timeline.
C9_ClampIdempotence ==
  [][(pc = "fetch" /\ pc' # "failed" /\ ParseDateTime(filters.endDate) >= now) =>
       LET ref == ProcessMachine(machine', historyData', startTime, Min(now, now),
                                 [machineReports |-> machineReports,
                                  departmentStatusTotals |-> departmentStatusTotals,
                                  machineTimelines |-> machineTimelines])
       IN /\ machineReports' = ref.machineReports
          /\ departmentStatusTotals' = ref.departmentStatusTotals
          /\ machineTimelines' = ref.machineTimelines
          /\ pc' = "done" => /\ report' = DepartmentReport(ref)
                             /\ timeline' = ref.machineTimelines]_vars

C9_Witness ==
  /\ pc = "done"
  /\ ParseDateTime(filters.endDate) > now
  /\ Len(report.machineReports) = 2
  /\ \E k \in 1..Len(timeline) :
       \E i \in 1..Len(timeline[k].segments) : timeline[k].segments[i].endTime = now

\* C10: when window.start >= effectiveEnd the generation commits an empty
\* result: no machine report, no timeline, no aggregate entry, totalTime 0.
C10_EmptyWindow ==
  /\ (pc \in {"fetch", "done"} /\ startTime >= endTime) =>
       /\ machineReports = <<>>
       /\ departmentStatusTotals = <<>>
       /\ machineTimelines = <<>>
  /\ (pc = "done" /\ startTime >= endTime) =>
       /\ report = [statusDurations |-> <<>>, totalTime |-> 0, machineReports |-> <<>>]
       /\ timeline = <<>>
       /\ ~loading

C10_Witness ==
  /\ pc = "done"
  /\ ParseDateTime(filters.startDate) >= effectiveEndTime
  /\ Len(targetMachines) = 2
  /\ historyData # <<>>
  /\ report.totalTime = 0

\* C11: a machine whose retained history is empty, or whose retained events all
\* have changedAt >= effectiveEnd, gets no StatusDuration entry and no segment
\* and leaves the aggregate as it was; a generation over only such machines
\* commits totalTime = 0 with empty lists, and ends without a failure.
NoApplicableHistory ==
  \A i \in RetainedEvents : historyData[i].changed_at >= endTime

C11_NoApplicableHistory ==
  [][(pc = "fetch" /\ pc' # "failed" /\ NoApplicableHistory') =>
       /\ machineReports' = machineReports
       /\ machineTimelines' = machineTimelines
       /\ departmentStatusTotals' = departmentStatusTotals
       /\ (pc' = "done" /\ machineReports = <<>>) =>
            /\ report' = [statusDurations |-> <<>>, totalTime |-> 0,
                          machineReports |-> <<>>]
            /\ timeline' = <<>>
            /\ ~loading']_vars

C11_Witness ==
  /\ pc = "done"
  /\ Len(targetMachines) = 2
  /\ machine = targetMachines[2]
  /\ EffectiveReportStart < endTime
  /\ RetainedEvents # {}
  /\ NoApplicableHistory
  /\ Len(report.machineReports) = 1
  /\ report.machineReports[1].machineId = targetMachines[1].id

\* C16: a machine all of whose retained status changes occurred before the
\* effective report start contributes no duration and no segment and does not
\* appear in the per-machine reports.
CarriedOverOnly ==
  /\ RetainedEvents # {}
  /\ \A i \in RetainedEvents : historyData[i].changed_at < EffectiveReportStart

C16_CarriedOverOnlyOmitted ==
  (Processed /\ CarriedOverOnly) =>
    /\ machineReports = <<>>
    /\ machineTimelines = <<>>
    /\ departmentStatusTotals = <<>>

\* C16 as amended: when the effective window is not empty such a machine is
\* reported with exactly one segment, from the effective report start to the
\* effective end, carrying the status of the last of those events in response
\* order, and with totalTime = effectiveEnd - effectiveReportStart; it is
\* omitted only when the effective window is empty.
C16_CarriedOverOnlyIncluded ==
  (Processed /\ CarriedOverOnly) =>
    IF EffectiveReportStart < endTime
    THEN LET last == CHOOSE i \in RetainedEvents : \A j \in RetainedEvents : j <= i
             whole == endTime - EffectiveReportStart
         IN /\ Pushed
            /\ Len(machineReports) = 1 /\ Len(machineTimelines) = 1
            /\ LastSegments = <<[status |-> historyData[last].status,
                                 startTime |-> EffectiveReportStart,
                                 endTime |-> endTime,
                                 duration |-> whole]>>
            /\ LastReport.totalTime = whole
            /\ Len(LastReport.statusDurations) = 1
            /\ LastReport.statusDurations[1].status = historyData[last].status
            /\ LastReport.statusDurations[1].duration = whole
            /\ departmentStatusTotals =
                 <<[status |-> historyData[last].status, duration |-> whole]>>
    ELSE /\ machineReports = <<>>
         /\ machineTimelines = <<>>
         /\ departmentStatusTotals = <<>>

C16_Witness ==
  /\ pc = "done"
  /\ CarriedOverOnly
  /\ Len(historyData) = 2
  /\ historyData[1].status # historyData[2].status
  /\ historyData[1].changed_at > historyData[2].changed_at
  /\ EffectiveReportStart < endTime
  /\ Len(report.machineReports) = 1
  /\ report.totalTime = endTime - EffectiveReportStart

\* C18: in every per-machine breakdown and in the aggregate, total is the sum
\* of the breakdown's durations and each entry has
\* percentage * total = duration * 100 (so the percentages of a non-empty
\* breakdown sum to 100); the percentage is 0 when total is 0 and its
\* denominator is never 0.
RECURSIVE SumNumerators(_)
SumNumerators(durs) ==
  IF durs = <<>> THEN 0
  ELSE Head(durs).percentage[1] + SumNumerators(Tail(durs))

ConsistentBreakdown(durs, total) ==
  /\ total = SumDurations(durs)
  /\ \A i \in 1..Len(durs) :
       LET numerator == durs[i].percentage[1]
           denominator == durs[i].percentage[2]
       IN /\ denominator # 0
          /\ numerator * total = durs[i].duration * 100 * denominator
          /\ total = 0 => numerator = 0
          /\ total > 0 => denominator = total
  /\ durs # <<>> => SumNumerators(durs) = 100 * total

C18_PercentageConsistency ==
  /\ \A k \in 1..Len(machineReports) :
       ConsistentBreakdown(machineReports[k].statusDurations,
                           machineReports[k].totalTime)
  /\ pc = "done" =>
       /\ ConsistentBreakdown(report.statusDurations, report.totalTime)
       /\ \A k \in 1..Len(report.machineReports) :
            ConsistentBreakdown(report.machineReports[k].statusDurations,
                                report.machineReports[k].totalTime)

C18_Witness ==
  /\ pc = "done"
  /\ Len(report.statusDurations) = 2
  /\ report.totalTime = 3
  /\ report.statusDurations[1].percentage = <<200, 3>>
  /\ report.statusDurations[2].percentage = <<100, 3>>

\* C19: each per-machine StatusDuration list is sorted by non-increasing
\* duration, and statuses of equal duration keep the order in which they first
\* accumulated duration during the sweep, whatever the status names are.
FirstSeen(segs, status) ==
  CHOOSE i \in 1..Len(segs) :
    /\ segs[i].status = status
    /\ \A j \in 1..(i - 1) : segs[j].status # status

C19_BreakdownOrdering ==
  \A k \in 1..Len(machineReports) :
    LET durs == machineReports[k].statusDurations
        segs == machineTimelines[k].segments
    IN \A i, j \in 1..Len(durs) :
         i < j =>
           /\ durs[i].duration >= durs[j].duration
           /\ durs[i].duration = durs[j].duration =>
                FirstSeen(segs, durs[i].status) < FirstSeen(segs, durs[j].status)

\* C20: a machine's segments are in ascending startTime order, every segment
\* after the first starts exactly where the preceding one ends, and the only
\* uncovered part of [effectiveReportStart, effectiveEnd) is one gap before
\* the first segment, while no status is known.
C20_OrderAndContiguity ==
  (Processed /\ EffectiveReportStart < endTime) =>
    LET known == {i \in RetainedEvents : historyData[i].changed_at < endTime}
    IN IF known = {} THEN LastSegments = <<>>
       ELSE LET earliest == CHOOSE i \in known :
                              \A j \in known :
                                historyData[i].changed_at <= historyData[j].changed_at
            IN /\ LastSegments # <<>>
               /\ \A i \in 2..Len(LastSegments) :
                    /\ LastSegments[i].startTime = LastSegments[i - 1].endTime
                    /\ LastSegments[i - 1].startTime < LastSegments[i].startTime
                    /\ LastSegments[i - 1].endTime <= LastSegments[i].endTime
               /\ LastSegments[1].startTime =
                    Max(EffectiveReportStart, historyData[earliest].changed_at)
               /\ LastSegments[Len(LastSegments)].endTime = endTime

\* C12: once a new generation has been started, the results of a generation
\* started before it are never committed to the report and timeline the page
\* shows: these change only when the page is mounted anew or when the
\* generation started last commits, and after that commit they are its
\* results, in whatever order the fetches of the generations complete.
CurrentAcc ==
  [machineReports |-> machineReports,
   departmentStatusTotals |-> departmentStatusTotals,
   machineTimelines |-> machineTimelines]

C12_Supersession ==
  [][/\ (report' # report \/ timeline' # timeline) =>
          \/ pc' = "idle" /\ report' = NullReport /\ timeline' = <<>>
          \/ pc' = "done" /\ stale' = stale
     /\ pc' = "done" =>
          /\ report' = DepartmentReport(CurrentAcc')
          /\ timeline' = machineTimelines']_vars

C12_Witness ==
  /\ pc = "done"
  /\ Len(stale) = 1
  /\ stale[1].pc = "done"
  /\ ~stale[1].mounted
  /\ stale[1].machineReports # <<>>
  /\ stale[1].machineReports # machineReports
  /\ report.machineReports = machineReports

\* C13: a generation in which a history fetch fails commits nothing: from the
\* click to the failure, report and timeline stay exactly as they were before
\* the generation started, also when machines fetched before the failure
\* have been processed.
C13_AbortOnFailure ==
  [][pc' \in {"fetch", "failed"} =>
       /\ report' = report
       /\ timeline' = timeline]_vars

C13_Witness ==
  /\ pc = "failed"
  /\ idx = 2
  /\ machineReports # <<>>
  /\ report # NullReport
  /\ report.machineReports # <<>>
  /\ report.machineReports # machineReports

\* C14: after a failed history fetch the page is in a state that can be told
\* from a valid empty result and from a successful report: it does not
\* present a report the way a completed generation does.
ShowsReport == ~loading /\ report # NullReport

C14_FailureSurfaced == pc = "failed" => ~ShowsReport

\* C15: every generation uses effectiveEnd = min(window.end, now) with now the
\* clock value at the moment the generation is started, after any end-date
\* edits, clock advances and earlier generations.
C15_ClampPerGeneration ==
  [][GenerateReport =>
       endTime' = Min(ParseDateTime(filters.endDate), now)]_vars

\* C17: on a page that stays mounted through sign-ins, sign-outs, loads and
\* generations, every machine a team leader's generation takes into its
\* report belongs to a department assigned to the current user, as the load
\* for that user returns it; a machine without department is never taken.
C17_TeamLeaderScoping ==
  [][(GenerateReport /\ profile = "team_leader" /\ loads = <<>>) =>
       \A i \in 1..Len(targetMachines') :
         /\ targetMachines'[i].department_id # 0
         /\ Includes(Assignments[user], targetMachines'[i].department_id)]_vars

\* The fetched events are in ascending changed_at order, as events recorded one
\* after another are
Ascending(h) ==
  \A i \in 1..(Len(h) - 1) : h[i].changed_at <= h[i + 1].changed_at

\* C21: segments are maximal: no two segments of one machine's timeline that
\* are adjacent in time (one ends where the other starts) carry the same
\* status, also when an event re-records the status in effect (a comment-only
\* update). Stated for histories fetched in ascending order.
C21_SegmentsMaximal ==
  (Pushed /\ Ascending(historyData)) =>
    \A i, j \in 1..Len(LastSegments) :
      LastSegments[i].endTime = LastSegments[j].startTime =>
        LastSegments[i].status # LastSegments[j].status

\* C22: when a retained event has changedAt equal to effectiveReportStart (and
\* the effective window is not empty), the first segment starts at
\* effectiveReportStart with the status of an event recorded at that instant,
\* and no segment, not even one of zero length, carries from that instant on
\* the status that was in effect before it.
C22_ChangeAtWindowStart ==
  LET atStart == {i \in RetainedEvents :
                    historyData[i].changed_at = EffectiveReportStart}
      StatusAtStart(status) == \E i \in atStart : historyData[i].status = status
  IN (Processed /\ EffectiveReportStart < endTime /\ atStart # {}) =>
       /\ LastSegments # <<>>
       /\ LastSegments[1].startTime = EffectiveReportStart
       /\ StatusAtStart(LastSegments[1].status)
       /\ \A i \in 1..Len(LastSegments) :
            /\ LastSegments[i].endTime > LastSegments[i].startTime
            /\ LastSegments[i].startTime = EffectiveReportStart =>
                 StatusAtStart(LastSegments[i].status)

\* The events of the last response with changedAt before the effective end
BeforeEffectiveEnd ==
  LET Before(h) == h.changed_at < endTime
  IN SelectSeq(historyData, Before)

\* C23: the events with changedAt >= effectiveEnd (one exactly at
\* effectiveEnd included) have no effect: the machine's durations and
\* segments are those of the same history without these events, none of them
\* opens a segment, and the status active before them is closed exactly at
\* effectiveEnd.
C23_EventsAfterEndIgnored ==
  (Processed /\ Len(machines) = 1) =>
    /\ CurrentAcc =
         ProcessMachine(machine, BeforeEffectiveEnd, startTime, endTime, EmptyAcc)
    /\ \A i \in 1..Len(LastSegments) :
         /\ LastSegments[i].startTime < endTime
         /\ LastSegments[i].endTime <= endTime
    /\ Pushed =>
         /\ LastSegments # <<>>
         /\ LastSegments[Len(LastSegments)].endTime = endTime

\* An event exactly at the effective end and one before it, the machine is
\* reported
C23_Witness ==
  /\ Pushed
  /\ Len(historyData) = 2
  /\ BeforeEffectiveEnd # <<>>
  /\ \E i \in 1..2 : historyData[i].changed_at = endTime
  /\ LastSegments[Len(LastSegments)].endTime = endTime

\* The events of the last response recorded before the machine was created
BeforeCreation == {i \in 1..Len(historyData) :
                     historyData[i].changed_at < machine.created_at}

\* The last response without them
SinceCreation ==
  LET Since(h) == h.changed_at >= machine.created_at
  IN SelectSeq(historyData, Since)

\* C24: the events with changedAt before the machine's creation have no
\* effect: the machine's durations and segments are those of the same history
\* without these events, and a machine whose events were all recorded before
\* its creation is not reported, so none of them is the carried-over status.
C24_EventsBeforeCreationIgnored ==
  (Processed /\ Len(machines) = 1) =>
    /\ CurrentAcc =
         ProcessMachine(machine, SinceCreation, startTime, endTime, EmptyAcc)
    /\ RetainedEvents = {} => ~Pushed
    /\ \A i \in 1..Len(LastSegments) :
         LastSegments[i].startTime >= machine.created_at

\* An event before the creation and one after it, the machine is reported
\* and the window starts before the creation
C24_Witness ==
  /\ Pushed
  /\ BeforeCreation # {}
  /\ RetainedEvents # {}
  /\ startTime < machine.created_at
  /\ LastSegments # <<>>

\* Every entry of a breakdown has a positive duration
PositiveDurations(durs) == \A i \in 1..Len(durs) : durs[i].duration > 0

\* C25: every emitted segment has duration = endTime - startTime > 0, every
\* entry of a machine's breakdown and of the aggregate breakdown has a
\* positive duration, and a status is listed only if segments of it were
\* emitted, also when several events share one timestamp.
C25_NoZeroDurations ==
  /\ \A k \in 1..Len(machineTimelines) :
       \A i \in 1..Len(machineTimelines[k].segments) :
         LET seg == machineTimelines[k].segments[i]
         IN /\ seg.duration = seg.endTime - seg.startTime
            /\ seg.duration > 0
  /\ \A k \in 1..Len(machineReports) :
       /\ PositiveDurations(machineReports[k].statusDurations)
       /\ \A i \in 1..Len(machineReports[k].statusDurations) :
            SumOfStatus(machineTimelines[k].segments,
                        machineReports[k].statusDurations[i].status) > 0
  /\ \A i \in 1..Len(departmentStatusTotals) :
       departmentStatusTotals[i].duration > 0
  /\ report # NullReport =>
       /\ PositiveDurations(report.statusDurations)
       /\ \A k \in 1..Len(report.machineReports) :
            PositiveDurations(report.machineReports[k].statusDurations)

\* A reported machine with two events at one timestamp inside the window and
\* only one status in its breakdown
C25_Witness ==
  /\ pc = "done"
  /\ Pushed
  /\ Len(historyData) = 2
  /\ historyData[1].changed_at = historyData[2].changed_at
  /\ historyData[1].status # historyData[2].status
  /\ historyData[1].changed_at > EffectiveReportStart
  /\ Len(report.statusDurations) = 1

\* C27: a machine is appended to machineReports and machineTimelines only if
\* effectiveReportStart < effectiveEnd and it has a retained event before
\* effectiveEnd; every appended machine has at least one segment, its segment
\* emitted last ends exactly at effectiveEnd and its totalTime is positive,
\* so the machineTotal = 0 branch of the percentage is never taken for it.
C27_IncludedMachinesNonEmpty ==
  /\ Len(machineReports) = Len(machineTimelines)
  /\ \A k \in 1..Len(machineTimelines) :
       LET segs == machineTimelines[k].segments
       IN /\ machineReports[k].machineId = machineTimelines[k].machineId
          /\ segs # <<>>
          /\ segs[Len(segs)].endTime = endTime
          /\ machineReports[k].totalTime > 0
          /\ machineReports[k].statusDurations # <<>>
          /\ \A i \in 1..Len(machineReports[k].statusDurations) :
               machineReports[k].statusDurations[i].percentage[2] =
                 machineReports[k].totalTime
  /\ Pushed =>
       /\ EffectiveReportStart < endTime
       /\ \E i \in RetainedEvents : historyData[i].changed_at < endTime

\* A reported machine whose events all precede the window start, and one with
\* two segments
C27_Witness ==
  /\ Pushed
  /\ \/ /\ \A i \in RetainedEvents :
             historyData[i].changed_at < EffectiveReportStart
        /\ Len(LastSegments) = 1
     \/ Len(LastSegments) = 2
  /\ LastSegments[Len(LastSegments)].endTime = endTime
  /\ LastReport.totalTime > 0

\* C26: within one generation every target machine is clipped with the same
\* effective end, the one read when the generation started, although the
\* clock advances and the end date may be edited while the history fetches
\* are awaited one after the other: no segment of any machine reaches past
\* it and every reported machine's last segment ends exactly at it.
C26_SingleClampPerReport ==
  \A k \in 1..Len(machineTimelines) :
    LET segs == machineTimelines[k].segments
    IN /\ \A i \in 1..Len(segs) : segs[i].endTime <= endTime
       /\ segs # <<>> => segs[Len(segs)].endTime = endTime
       /\ \A j \in 1..Len(machineTimelines) :
            LET other == machineTimelines[j].segments
            IN (segs # <<>> /\ other # <<>>) =>
                 segs[Len(segs)].endTime = other[Len(other)].endTime

\* Two machines reported by one generation, and the clock at the commit
\* would give a later effective end than the one the generation used
C26_Witness ==
  /\ pc = "done"
  /\ Len(timeline) = 2
  /\ timeline[1].segments # <<>>
  /\ timeline[2].segments # <<>>
  /\ now > endTime
  /\ EffectiveEndTime(filters.endDate, now) > endTime

\* C28: whenever the report or the timeline of a completed generation is
\* shown, the period shown with it and the range that positions the timeline
\* segments (filters.startDate and effectiveEndTime as the render reads them)
\* are the start and the effective end that generation computed with.
C28_DisplayedPeriod ==
  (pc = "done" /\ ShowsReport) =>
    /\ ParseDateTime(filters.startDate) = startTime
    /\ effectiveEndTime = endTime

\* C29: after any sequence of tab switches, sign-ins and sign-outs a
\* ReportsPage is mounted only while no user is signed in or the profile's
\* role is admin or team_leader; while an operator is signed in none is
\* mounted, also when the reports tab was the active tab before the sign-in.
C29_ReportsAccessGate ==
  /\ reportsPage => (user = 0 \/ profile = "admin" \/ profile = "team_leader")
  /\ (user # 0 /\ profile = "operator") => ~reportsPage
  /\ reportsPage => activeTab = "reports"

\* An operator signed in while the reports tab was active: the tab is still
\* the active one and no ReportsPage is mounted
C29_Witness ==
  /\ activeTab = "reports"
  /\ user # 0
  /\ profile = "operator"
  /\ ~reportsPage

\* C30: after any sequence of signIn, signUp and signOut calls, successful or
\* failing, user is set iff profile is set, and then both carry one id and
\* the profile stored under STORAGE_KEY is that profile; signOut leaves user,
\* profile and the stored entry cleared; a signIn or signUp that returns an
\* error leaves user, profile and the storage unchanged.
C30_AuthAgreement ==
  /\ [](/\ user # 0 <=> profile # Null
        /\ user # 0 => /\ user = profileId
                       /\ storage = [id |-> profileId, role |-> profile])
  /\ [][SignOut => (user' = 0 /\ profile' = Null /\ storage' = NoProfile)]_vars
  /\ [][(\/ SignInRejects
         \/ SignUpRejects
         \/ \E u \in 1..Len(Profiles) : SignInStorageFails(u)
         \/ \E u \in Operators : SignUpStorageFails(u))
        => UNCHANGED <<user, profile, profileId, storage>>]_vars

====
